---- MODULE Spec2Model ----
(***************************************************************************)
(* Order lifecycle of the restaurant backend: order creation with pricing, *)
(* the order status machine, cancellation, reviews, and their side effects *)
(* on dish stock and table occupancy.  Each request handler is one action. *)
(*                                                                         *)
(* Money is a JavaScript Number in the source.  Here every amount is an    *)
(* integer count of 1/100000 of a currency unit, so 12.99 is 1299000 and a *)
(* rate of 8.5 percent is 85 tenths of a percent; the products and         *)
(* quotients of the amounts used below are exact in these units.           *)
(***************************************************************************)
EXTENDS Integers, Sequences, FiniteSets, TLC

\* ---------------------------------------------------------------- bounds
\* orders per run of the order engine, of the table slice and of the
\* numbering slice; status-history entries per run; stock ceiling for the
\* stock route; calendar days
MaxOrders == 1
MaxSeated == 2
MaxNumbered == 3
MaxHist == 2
MaxStock == 3
MaxDay == 2
\* status-history entries per run of the reopening slice
MaxReopen == 3

\* null / undefined object reference
Null == 0

\* ------------------------------------------------------------ fixed data
Users == {1, 2}
Customers == {1}
Staff == {2}
RestaurantIds == {1, 2}
DishIds == {1, 2}
TableIds == {1}
\* the id the database gives a dish created by POST /api/dishes
NewDishIds == {3}
\* ids that resolve to no document
UnknownIds == {9}

OrderTypes == {"dine_in", "takeout", "delivery"}
OrderStatuses == {"pending", "confirmed", "preparing", "ready", "out_for_delivery",
                  "delivered", "completed", "cancelled", "rejected"}
TableStatuses == {"available", "occupied", "reserved", "maintenance", "out_of_service"}
CancelBlockedWithoutDelivered == {"completed", "cancelled", "rejected"}

CancelBlocked == {"delivered", "completed", "cancelled", "rejected"}
StockOperations == {"add", "subtract", "set"}

\* absent optional string of a request body
Undefined == "<undefined>"
Reasons == {Undefined, "changed mind"}

\* calendar days, each as the characters of year (two digits), month and day
\* that the order number is built from
DateDigits == <<  <<2, 6, 1, 1, 0, 5>>, <<2, 6, 1, 1, 0, 6>>, <<2, 6, 1, 1, 0, 7>>  >>

\* restaurant settings read by order creation (rates in tenths of a percent)
restaurants ==
  [r \in RestaurantIds |->
     IF r = 1 THEN [taxRate |-> 85, serviceCharge |-> 100, deliveryFee |-> 300000]
              ELSE [taxRate |-> 100, serviceCharge |-> 0, deliveryFee |-> 0]]

\* the menu items and tables the restaurants start with; the dish routes
\* store the stock flags computed by checkStockStatus
InitialDish(d) ==
  [restaurantId |-> d,
   price |-> IF d = 1 THEN 1299000 ELSE 500000,
   isAvailable |-> TRUE,
   stockQuantity |-> 2,
   lowStockThreshold |-> 1,
   isLowStock |-> FALSE,
   isOutOfStock |-> FALSE]

InitialTable(t) == [restaurantId |-> 1, status |-> "available", currentOrder |-> Null]

\* request bodies of order creation: one line, a line with a customization,
\* two lines of one dish that together ask for more than the opening stock
\* (and for exactly the stock ceiling of the stock route), a line of
\* the other restaurant, and lines that name another restaurant's dish or
\* no dish at all
Line(dishId, quantity, customizations) ==
  [dishId |-> dishId, quantity |-> quantity, customizations |-> customizations]

ItemLists ==
  { <<Line(1, 1, <<>>)>>,
    <<Line(1, 2, <<150000>>)>>,
    <<Line(1, 1, <<>>), Line(1, 2, <<>>)>>,
    <<Line(2, 1, <<>>)>>,
    <<Line(1, 1, <<>>), Line(2, 1, <<>>)>>,
    <<Line(9, 1, <<>>)>> }

BasicItemLists == { <<Line(1, 1, <<>>)>>, <<Line(2, 1, <<>>)>> }

VARIABLES orders, dishes, tables, today, lastOp, snap, requests

vars == <<orders, dishes, tables, today, lastOp, snap, requests>>

OrderIds == 1..Len(orders)

\* ----------------------------------------------------------- Dish model
checkStockStatusLowOnly(dish) ==
  [dish EXCEPT !.isLowStock = (dish.stockQuantity <= dish.lowStockThreshold)]

checkStockStatus(dish) ==
  [dish EXCEPT !.isLowStock = (dish.stockQuantity <= dish.lowStockThreshold),
               !.isOutOfStock = (dish.stockQuantity = 0)]

Max(a, b) == IF a >= b THEN a ELSE b

updateStockNoClamp(dish, quantity) ==
  checkStockStatus([dish EXCEPT !.stockQuantity = dish.stockQuantity + quantity])

updateStock(dish, quantity) ==
  checkStockStatus([dish EXCEPT !.stockQuantity = Max(0, dish.stockQuantity + quantity)])

\* ---------------------------------------------------------- Table model
occupyUnguarded(table, orderId) ==
  [ok |-> TRUE, table |-> [table EXCEPT !.status = "occupied", !.currentOrder = orderId]]

occupy(table, orderId) ==
  IF table.status = "available" \/ table.status = "reserved"
    THEN [ok |-> TRUE,
          table |-> [table EXCEPT !.status = "occupied", !.currentOrder = orderId]]
    ELSE [ok |-> FALSE, table |-> table]

freeOccupiedOnly(table) ==
  IF table.status = "occupied"
    THEN [table EXCEPT !.status = "available", !.currentOrder = Null]
    ELSE table

free(table) == [table EXCEPT !.status = "available", !.currentOrder = Null]

\* ---------------------------------------------------------- Order model
updateStatusReplace(order, newStatus, updatedBy, notes) ==
  [order EXCEPT !.status = newStatus,
                !.statusHistory =
                   <<[status |-> newStatus, updatedBy |-> updatedBy, notes |-> notes]>>]

updateStatus(order, newStatus, updatedBy, notes) ==
  [order EXCEPT !.status = newStatus,
                !.statusHistory =
                   Append(@, [status |-> newStatus, updatedBy |-> updatedBy, notes |-> notes])]

\* number of orders of the restaurant created on the given day
OrderCountAllRestaurants(restaurantId, day) ==
  Cardinality({o \in OrderIds : orders[o].createdAt = day})

OrderCount(restaurantId, day) ==
  Cardinality({o \in OrderIds :
                 orders[o].restaurantId = restaurantId /\ orders[o].createdAt = day})

\* Number.toString(): the decimal digits of a natural number
RECURSIVE ToDigits(_)
ToDigits(n) == IF n < 10 THEN <<n>> ELSE Append(ToDigits(n \div 10), n % 10)

\* String.padStart(width, '0')
RECURSIVE PadStart(_, _)
PadStart(digits, width) ==
  IF Len(digits) >= width THEN digits ELSE PadStart(<<0>> \o digits, width)

\* the characters after the "ORD" prefix: the date, then the day's count
\* plus one padded to four digits
OrderNumber(restaurantId, day) ==
  DateDigits[day] \o PadStart(ToDigits(OrderCount(restaurantId, day) + 1), 4)

\* the unique index on orderNumber
OrderNumberTaken(n) == \E o \in OrderIds : orders[o].orderNumber = n

\* ------------------------------------------------------ request results
\* the response of the last request; a thrown error reaches the error
\* middleware, which is reported here as code 500
Resp(op, id, user, table, arg, code, msg, occupied) ==
  [op |-> op, id |-> id, user |-> user, table |-> table, arg |-> arg,
   code |-> code, msg |-> msg, occupied |-> occupied]

\* --------------------------------------------- POST /api/orders helpers
RECURSIVE SumSeq(_)
SumSeq(s) == IF s = <<>> THEN 0 ELSE Head(s) + SumSeq(Tail(s))

ItemTotalPerUnit(price, item) == (price + SumSeq(item.customizations)) * item.quantity

\* a line's total: the dish price times the quantity, then each selected
\* customization's price added once
ItemTotal(price, item) == price * item.quantity + SumSeq(item.customizations)

RECURSIVE ValidateItemsAnyRestaurant(_, _, _, _, _)
ValidateItemsAnyRestaurant(items, restaurantId, i, subtotal, validatedItems) ==
  IF i > Len(items)
    THEN [ok |-> TRUE, msg |-> "", subtotal |-> subtotal, items |-> validatedItems]
    ELSE
      LET item == items[i] IN
      IF item.dishId \notin DOMAIN dishes
        THEN [ok |-> FALSE, msg |-> "Dish not found or does not belong to this restaurant",
              subtotal |-> subtotal, items |-> validatedItems]
      ELSE IF ~dishes[item.dishId].isAvailable
        THEN [ok |-> FALSE, msg |-> "Dish is not available",
              subtotal |-> subtotal, items |-> validatedItems]
      ELSE IF dishes[item.dishId].isOutOfStock
        THEN [ok |-> FALSE, msg |-> "Dish is out of stock",
              subtotal |-> subtotal, items |-> validatedItems]
      ELSE
        LET dish == dishes[item.dishId]
            itemTotal == ItemTotal(dish.price, item)
        IN ValidateItemsAnyRestaurant(items, restaurantId, i + 1, subtotal + itemTotal,
                                      Append(validatedItems,
                                             [dishId |-> item.dishId, price |-> dish.price,
                                              quantity |-> item.quantity,
                                              customizations |-> item.customizations,
                                              totalPrice |-> itemTotal]))

\* the validation and pricing loop over the request's items: stops at the
\* first line that fails a check
RECURSIVE ValidateItems(_, _, _, _, _)
ValidateItems(items, restaurantId, i, subtotal, validatedItems) ==
  IF i > Len(items)
    THEN [ok |-> TRUE, msg |-> "", subtotal |-> subtotal, items |-> validatedItems]
    ELSE
      LET item == items[i] IN
      IF item.dishId \notin DOMAIN dishes \/ dishes[item.dishId].restaurantId # restaurantId
        THEN [ok |-> FALSE, msg |-> "Dish not found or does not belong to this restaurant",
              subtotal |-> subtotal, items |-> validatedItems]
      ELSE IF ~dishes[item.dishId].isAvailable
        THEN [ok |-> FALSE, msg |-> "Dish is not available",
              subtotal |-> subtotal, items |-> validatedItems]
      ELSE IF dishes[item.dishId].isOutOfStock
        THEN [ok |-> FALSE, msg |-> "Dish is out of stock",
              subtotal |-> subtotal, items |-> validatedItems]
      ELSE
        LET dish == dishes[item.dishId]
            itemTotal == ItemTotal(dish.price, item)
        IN ValidateItems(items, restaurantId, i + 1, subtotal + itemTotal,
                         Append(validatedItems,
                                [dishId |-> item.dishId, price |-> dish.price,
                                 quantity |-> item.quantity,
                                 customizations |-> item.customizations,
                                 totalPrice |-> itemTotal]))

Percent(amount, rate) == (amount * rate) \div 1000

TotalWithoutDeliveryFee(subtotal, taxAmount, serviceCharge, deliveryFee) ==
  subtotal + taxAmount + serviceCharge

TotalAmount(subtotal, taxAmount, serviceCharge, deliveryFee) ==
  subtotal + taxAmount + serviceCharge + deliveryFee

\* the document Order.create persists; the schema defaults fill status,
\* statusHistory and discountAmount, the pre-save hook fills orderNumber
NewOrder(user, restaurantId, orderType, v, tableId) ==
  LET taxAmount == Percent(v.subtotal, restaurants[restaurantId].taxRate)
      serviceCharge == Percent(v.subtotal, restaurants[restaurantId].serviceCharge)
      deliveryFee == IF orderType = "delivery" THEN restaurants[restaurantId].deliveryFee ELSE 0
  IN [orderNumber |-> OrderNumber(restaurantId, today),
      restaurantId |-> restaurantId,
      customerId |-> user,
      tableId |-> tableId,
      orderType |-> orderType,
      items |-> v.items,
      subtotal |-> v.subtotal,
      taxAmount |-> taxAmount,
      serviceCharge |-> serviceCharge,
      deliveryFee |-> deliveryFee,
      discountAmount |-> 0,
      totalAmount |-> TotalAmount(v.subtotal, taxAmount, serviceCharge, deliveryFee),
      status |-> "pending",
      statusHistory |-> <<>>,
      cancellationReason |-> Undefined,
      cancelledBy |-> Null,
      cancelledAt |-> Null,
      actualDeliveryTime |-> Null,
      rating |-> Null,
      review |-> Undefined,
      reviewDate |-> Null,
      createdAt |-> today]

\* the stock loops: updateStock(sign * quantity) and save for the first n
\* line items, in item order
RECURSIVE ApplyStock(_, _, _, _)
ApplyStock(ds, items, n, sign) ==
  IF n = 0 THEN ds
  ELSE LET before == ApplyStock(ds, items, n - 1, sign)
           item == items[n]
       IN [before EXCEPT ![item.dishId] = updateStock(@, sign * item.quantity)]

\* order creation takes each line's quantity off its dish
DecrementStock(ds, items, n) == ApplyStock(ds, items, n, -1)

RestoreOneUnitPerLine(ds, items, n) ==
  ApplyStock(ds, [i \in 1..Len(items) |-> [items[i] EXCEPT !.quantity = 1]], n, 1)

\* cancellation puts each line's quantity back
RestoreStock(ds, items, n) == ApplyStock(ds, items, n, 1)

StockOf(ds) == [d \in DOMAIN ds |-> ds[d].stockQuantity]

\* bookkeeping for the create-then-cancel properties: the stock before the
\* most recent order was created, and whether stock was touched since
SnapDirty == IF snap.phase \in {"created", "cancelled"}
               THEN [snap EXCEPT !.phase = "dirty"] ELSE snap

\* ------------------------------------------------------ POST /api/orders
\* fault = 0: every write succeeds; 1: Order.create throws; 2: table.save
\* throws; 2 + i: the save of the i-th line's dish throws
CreateOrder(user, restaurantId, orderType, items, tableId, fault) ==
  /\ LET v == ValidateItems(items, restaurantId, 1, 0, <<>>)
         id == Len(orders) + 1
         order == NewOrder(user, restaurantId, orderType, v, tableId)
         tableStep == orderType = "dine_in" /\ tableId # Null /\ tableId \in TableIds
         occ == occupy(tables[tableId], id)
         dishFault == fault >= 3 /\ fault - 2 <= Len(items)
         saved == IF dishFault THEN fault - 3 ELSE Len(items)
     IN
     IF ~v.ok
       THEN /\ lastOp' = Resp("createOrder", Null, user, tableId, orderType, 400, v.msg, "none")
            /\ UNCHANGED <<orders, dishes, tables, today, snap>>
     ELSE IF fault = 1 \/ OrderNumberTaken(order.orderNumber)
       THEN /\ lastOp' = Resp("createOrder", Null, user, tableId, orderType, 500,
                              IF fault = 1 THEN "write failed" ELSE "duplicate key", "none")
            /\ UNCHANGED <<orders, dishes, tables, today, snap>>
     ELSE IF tableStep /\ fault = 2
       THEN /\ orders' = Append(orders, order)
            /\ lastOp' = Resp("createOrder", id, user, tableId, orderType, 500,
                              "write failed", IF occ.ok THEN "true" ELSE "false")
            /\ UNCHANGED <<dishes, tables, today, snap>>
     ELSE /\ orders' = Append(orders, order)
          /\ tables' = IF tableStep THEN [tables EXCEPT ![tableId] = occ.table] ELSE tables
          /\ dishes' = DecrementStock(dishes, v.items, saved)
          /\ snap' = IF dishFault
                       THEN (IF saved > 0 THEN SnapDirty ELSE snap)
                       ELSE [order |-> id, stock |-> StockOf(dishes), phase |-> "created"]
          /\ lastOp' = Resp("createOrder", id, user, tableId, orderType,
                            IF dishFault THEN 500 ELSE 201,
                            IF dishFault THEN "write failed" ELSE "",
                            IF tableStep THEN (IF occ.ok THEN "true" ELSE "false") ELSE "none")
          /\ UNCHANGED today

\* -------------------------------------------- PUT /api/orders/:id/status
SetOrderStatusFromOpenOnly(id, user, status, notes, fault) ==
  IF id \in OrderIds /\ orders[id].status \in CancelBlocked
    THEN /\ lastOp' = Resp("setOrderStatus", id, user, Null, status, 400,
                           "Invalid status transition", "none")
         /\ UNCHANGED <<orders, dishes, tables, today, snap>>
  ELSE IF id \notin OrderIds
    THEN /\ lastOp' = Resp("setOrderStatus", id, user, Null, status, 404, "Order not found", "none")
         /\ UNCHANGED <<orders, dishes, tables, today, snap>>
  ELSE /\ orders' = [orders EXCEPT ![id] = updateStatus(@, status, user, notes)]
       /\ lastOp' = Resp("setOrderStatus", id, user, Null, status, 200, "", "none")
       /\ UNCHANGED <<dishes, tables, today, snap>>

\* fault = 1: order.save throws
SetOrderStatus(id, user, status, notes, fault) ==
  IF id \notin OrderIds
    THEN /\ lastOp' = Resp("setOrderStatus", id, user, Null, status, 404, "Order not found", "none")
         /\ UNCHANGED <<orders, dishes, tables, today, snap>>
  ELSE
    LET updated == updateStatus(orders[id], status, user, notes)
           delivered == IF status = "delivered" \/ status = "completed"
                          THEN [updated EXCEPT !.actualDeliveryTime = today] ELSE updated
           stamped == IF status = "cancelled" \/ status = "rejected"
                        THEN [delivered EXCEPT !.cancelledBy = user, !.cancelledAt = today]
                        ELSE delivered
       IN IF fault = 1
            THEN /\ lastOp' = Resp("setOrderStatus", id, user, Null, status, 500,
                                   "write failed", "none")
                 /\ UNCHANGED <<orders, dishes, tables, today, snap>>
            ELSE /\ orders' = [orders EXCEPT ![id] = stamped]
                 /\ lastOp' = Resp("setOrderStatus", id, user, Null, status, 200, "", "none")
                 /\ UNCHANGED <<dishes, tables, today, snap>>

\* -------------------------------------------- PUT /api/orders/:id/cancel
\* fault = 1: order.save throws; 1 + i: the save of the i-th line's dish
\* throws; 2 + Len(items): table.save throws
CancelOrder(id, user, reason, fault) ==
  IF id \notin OrderIds
    THEN /\ lastOp' = Resp("cancelOrder", id, user, Null, reason, 404, "Order not found", "none")
         /\ UNCHANGED <<orders, dishes, tables, today, snap>>
  ELSE IF orders[id].status \in CancelBlocked
    THEN /\ lastOp' = Resp("cancelOrder", id, user, Null, reason, 400,
                           "Order cannot be cancelled in current status", "none")
         /\ UNCHANGED <<orders, dishes, tables, today, snap>>
  ELSE
    LET order == orders[id]
           \* an absent reason takes the default of the notes parameter
           updated == updateStatus(order, "cancelled", user,
                                   IF reason = Undefined THEN "" ELSE reason)
           cancelled == [updated EXCEPT !.cancellationReason = reason,
                                        !.cancelledBy = user,
                                        !.cancelledAt = today]
           n == Len(order.items)
           dishFault == fault >= 2 /\ fault - 1 <= n
           saved == IF dishFault THEN fault - 2 ELSE n
           tableStep == order.orderType = "dine_in" /\ order.tableId # Null
                        /\ order.tableId \in TableIds
           tableFault == tableStep /\ fault = n + 2
           failed == dishFault \/ tableFault
       IN IF fault = 1
            THEN /\ lastOp' = Resp("cancelOrder", id, user, Null, reason, 500,
                                   "write failed", "none")
                 /\ UNCHANGED <<orders, dishes, tables, today, snap>>
            ELSE /\ orders' = [orders EXCEPT ![id] = cancelled]
                 /\ dishes' = RestoreStock(dishes, order.items, saved)
                 /\ tables' = IF tableStep /\ ~failed
                                THEN [tables EXCEPT ![order.tableId] = free(@)]
                                ELSE tables
                 /\ snap' = IF saved = 0 THEN snap
                            ELSE IF snap.phase = "created" /\ snap.order = id /\ ~failed
                              THEN [snap EXCEPT !.phase = "cancelled"]
                            ELSE SnapDirty
                 /\ lastOp' = Resp("cancelOrder", id, user,
                                   IF tableStep THEN order.tableId ELSE Null, reason,
                                   IF failed THEN 500 ELSE 200,
                                   IF failed THEN "write failed" ELSE "", "none")
                 /\ UNCHANGED today

\* ------------------------------------------- POST /api/orders/:id/review
AddReviewAnyStatus(id, user, rating, review) ==
  /\ UNCHANGED <<dishes, tables, today, snap>>
  /\ IF id \notin OrderIds
       THEN /\ lastOp' = Resp("addReview", id, user, Null, "", 404, "Order not found", "none")
            /\ UNCHANGED orders
     ELSE IF orders[id].customerId # user
       THEN /\ lastOp' = Resp("addReview", id, user, Null, "", 403,
                              "Not authorized to review this order", "none")
            /\ UNCHANGED orders
     ELSE /\ orders' = [orders EXCEPT ![id].rating = rating, ![id].review = review,
                                      ![id].reviewDate = today]
          /\ lastOp' = Resp("addReview", id, user, Null, "", 200, "", "none")

AddReview(id, user, rating, review) ==
  /\ UNCHANGED <<dishes, tables, today, snap>>
  /\ IF id \notin OrderIds
       THEN /\ lastOp' = Resp("addReview", id, user, Null, "", 404, "Order not found", "none")
            /\ UNCHANGED orders
     ELSE IF orders[id].customerId # user
       THEN /\ lastOp' = Resp("addReview", id, user, Null, "", 403,
                              "Not authorized to review this order", "none")
            /\ UNCHANGED orders
     ELSE IF orders[id].status # "completed"
       THEN /\ lastOp' = Resp("addReview", id, user, Null, "", 400,
                              "Can only review completed orders", "none")
            /\ UNCHANGED orders
     ELSE /\ orders' = [orders EXCEPT ![id].rating = rating, ![id].review = review,
                                      ![id].reviewDate = today]
          /\ lastOp' = Resp("addReview", id, user, Null, "", 200, "", "none")

\* -------------------------------------------- PUT /api/tables/:id/status
SetTableStatus(t, status) ==
  /\ UNCHANGED <<orders, dishes, today, snap>>
  /\ IF t \notin TableIds
       THEN /\ lastOp' = Resp("setTableStatus", Null, Null, t, status, 404, "Table not found", "none")
            /\ UNCHANGED tables
       ELSE /\ tables' = [tables EXCEPT ![t].status = status]
            /\ lastOp' = Resp("setTableStatus", Null, Null, t, status, 200, "", "none")

\* --------------------------------------------------- PUT /api/tables/:id
\* findByIdAndUpdate with a request body that carries a status
UpdateTable(t, status) ==
  /\ UNCHANGED <<orders, dishes, today, snap>>
  /\ IF t \notin TableIds
       THEN /\ lastOp' = Resp("updateTable", Null, Null, t, status, 404, "Table not found", "none")
            /\ UNCHANGED tables
       ELSE /\ tables' = [tables EXCEPT ![t].status = status]
            /\ lastOp' = Resp("updateTable", Null, Null, t, status, 200, "", "none")

\* --------------------------------------------- PUT /api/dishes/:id/stock
UpdateDishStock(d, quantity, operation) ==
  /\ UNCHANGED <<orders, tables, today>>
  /\ IF d \notin DOMAIN dishes
       THEN /\ lastOp' = Resp("updateDishStock", Null, Null, Null, operation, 404,
                              "Dish not found", "none")
            /\ UNCHANGED <<dishes, snap>>
       ELSE LET dish == dishes[d]
                changed == CASE operation = "add" -> updateStock(dish, quantity)
                             [] operation = "subtract" -> updateStock(dish, -quantity)
                             [] operation = "set" ->
                                  checkStockStatus([dish EXCEPT !.stockQuantity = quantity])
            IN /\ changed.stockQuantity <= MaxStock
               /\ IF changed.stockQuantity < 0
                    \* the schema's min validator rejects the save
                    THEN /\ lastOp' = Resp("updateDishStock", Null, Null, Null, operation, 500,
                                           "Stock quantity cannot be negative", "none")
                         /\ UNCHANGED <<dishes, snap>>
                    ELSE /\ dishes' = [dishes EXCEPT ![d] = changed]
                         /\ snap' = SnapDirty
                         /\ lastOp' = Resp("updateDishStock", Null, Null, Null, operation, 200,
                                           "", "none")

\* ------------------------------------------------------ POST /api/dishes
\* the fields a request body carries replace the document's
ApplyBody(doc, body) ==
  [f \in DOMAIN doc |-> IF f \in DOMAIN body THEN body[f] ELSE doc[f]]

\* the document Dish.create persists: the schema defaults, then the body
NewDish(body) ==
  ApplyBody([restaurantId |-> Null, price |-> 0, isAvailable |-> TRUE,
             stockQuantity |-> 0, lowStockThreshold |-> 10,
             isLowStock |-> FALSE, isOutOfStock |-> FALSE], body)

\* the request validators on the stock fields of a dish body
DishBodyValid(body) ==
  /\ "stockQuantity" \in DOMAIN body => body.stockQuantity >= 0
  /\ "lowStockThreshold" \in DOMAIN body => body.lowStockThreshold >= 0

\* d is the id the database assigns; categoryFound is the outcome of the
\* lookup of the body's category within the body's restaurant
CreateDish(d, body, categoryFound) ==
  /\ d \notin DOMAIN dishes
  /\ UNCHANGED <<orders, tables, today>>
  /\ IF ~DishBodyValid(body)
       THEN /\ lastOp' = Resp("createDish", Null, Null, Null, "", 400, "validation", "none")
            /\ UNCHANGED <<dishes, snap>>
     ELSE IF ~categoryFound
       THEN /\ lastOp' = Resp("createDish", Null, Null, Null, "", 400,
                              "Category not found or does not belong to this restaurant",
                              "none")
            /\ UNCHANGED <<dishes, snap>>
     ELSE /\ dishes' = [x \in DOMAIN dishes \cup {d} |->
                          IF x = d THEN checkStockStatus(NewDish(body)) ELSE dishes[x]]
          /\ snap' = SnapDirty
          /\ lastOp' = Resp("createDish", d, Null, Null, "", 201, "", "none")

\* --------------------------------------------------- PUT /api/dishes/:id
UpdateDishNoRecompute(d, body) ==
  /\ UNCHANGED <<orders, tables, today>>
  /\ IF ~DishBodyValid(body)
       THEN /\ lastOp' = Resp("updateDish", d, Null, Null, "", 400, "validation", "none")
            /\ UNCHANGED <<dishes, snap>>
     ELSE IF d \notin DOMAIN dishes
       THEN /\ lastOp' = Resp("updateDish", d, Null, Null, "", 404, "Dish not found", "none")
            /\ UNCHANGED <<dishes, snap>>
     ELSE /\ dishes' = [dishes EXCEPT ![d] = ApplyBody(@, body)]
          /\ snap' = SnapDirty
          /\ lastOp' = Resp("updateDish", d, Null, Null, "", 200, "", "none")

\* findByIdAndUpdate with the request body, then checkStockStatus and save
UpdateDish(d, body) ==
  /\ UNCHANGED <<orders, tables, today>>
  /\ IF ~DishBodyValid(body)
       THEN /\ lastOp' = Resp("updateDish", d, Null, Null, "", 400, "validation", "none")
            /\ UNCHANGED <<dishes, snap>>
     ELSE IF d \notin DOMAIN dishes
       THEN /\ lastOp' = Resp("updateDish", d, Null, Null, "", 404, "Dish not found", "none")
            /\ UNCHANGED <<dishes, snap>>
     ELSE /\ dishes' = [dishes EXCEPT ![d] = checkStockStatus(ApplyBody(@, body))]
          /\ snap' = SnapDirty
          /\ lastOp' = Resp("updateDish", d, Null, Null, "", 200, "", "none")

\* -------------------------------------- PUT /api/dishes/:id/availability
SetDishAvailability(d, isAvailable) ==
  /\ UNCHANGED <<orders, tables, today, snap>>
  /\ IF d \notin DOMAIN dishes
       THEN /\ lastOp' = Resp("setDishAvailability", d, Null, Null, "", 404,
                              "Dish not found", "none")
            /\ UNCHANGED dishes
       ELSE /\ dishes' = [dishes EXCEPT ![d].isAvailable = isAvailable]
            /\ lastOp' = Resp("setDishAvailability", d, Null, Null, "", 200, "", "none")

\* ------------------------------- POST /api/orders, from await to await
\* Requests the server works on at the same time.  Each is a takeout order
\* of restaurant 1 for one line of dish 1, and its handler runs from one
\* await to the next: the validation read and checks, Order.create, the
\* read of the dish in the stock loop, and updateStock with the save.
RequestIds == {1, 2}

IdleRequest == [pc |-> "idle", quantity |-> 0, validated |-> <<>>, order |-> Null,
                dish |-> Null]

\* document.save(): the paths whose value differs from the one read are
\* written, the others are left as stored
SaveModified(stored, read, doc) ==
  [f \in DOMAIN stored |-> IF doc[f] # read[f] THEN doc[f] ELSE stored[f]]

CreateOrderValidate(p, user, quantity) ==
  /\ requests[p].pc = "idle"
  /\ UNCHANGED <<orders, dishes, tables, today, snap>>
  /\ LET v == ValidateItems(<<Line(1, quantity, <<>>)>>, 1, 1, 0, <<>>) IN
     IF ~v.ok
       THEN /\ lastOp' = Resp("createOrder", Null, user, Null, "takeout", 400, v.msg, "none")
            /\ requests' = [requests EXCEPT ![p].pc = "done"]
       ELSE /\ requests' = [requests EXCEPT ![p].pc = "validated",
                                            ![p].quantity = quantity,
                                            ![p].validated = v]
            /\ UNCHANGED lastOp

CreateOrderInsert(p, user) ==
  /\ requests[p].pc = "validated"
  /\ UNCHANGED <<dishes, tables, today, snap>>
  /\ LET order == NewOrder(user, 1, "takeout", requests[p].validated, Null) IN
     IF OrderNumberTaken(order.orderNumber)
       THEN /\ lastOp' = Resp("createOrder", Null, user, Null, "takeout", 500,
                              "duplicate key", "none")
            /\ requests' = [requests EXCEPT ![p].pc = "done"]
            /\ UNCHANGED orders
       ELSE /\ orders' = Append(orders, order)
            /\ requests' = [requests EXCEPT ![p].pc = "created",
                                            ![p].order = Len(orders) + 1]
            /\ UNCHANGED lastOp

CreateOrderReadDish(p) ==
  /\ requests[p].pc = "created"
  /\ requests' = [requests EXCEPT ![p].pc = "read", ![p].dish = dishes[1]]
  /\ UNCHANGED <<orders, dishes, tables, today, lastOp, snap>>

CreateOrderSaveDishOnStored(p) ==
  /\ requests[p].pc = "read"
  /\ dishes' = [dishes EXCEPT ![1] = updateStock(@, -requests[p].quantity)]
  /\ snap' = SnapDirty
  /\ lastOp' = Resp("createOrder", requests[p].order, orders[requests[p].order].customerId,
                    Null, "takeout", 201, "", "none")
  /\ requests' = [requests EXCEPT ![p].pc = "done"]
  /\ UNCHANGED <<orders, tables, today>>

CreateOrderSaveDish(p) ==
  /\ requests[p].pc = "read"
  /\ dishes' = [dishes EXCEPT ![1] =
                  SaveModified(@, requests[p].dish,
                               updateStock(requests[p].dish, -requests[p].quantity))]
  /\ snap' = SnapDirty
  /\ lastOp' = Resp("createOrder", requests[p].order, orders[requests[p].order].customerId,
                    Null, "takeout", 201, "", "none")
  /\ requests' = [requests EXCEPT ![p].pc = "done"]
  /\ UNCHANGED <<orders, tables, today>>

\* the calendar day of new Date() moves on
NextDay ==
  /\ today < MaxDay
  /\ today' = today + 1
  /\ lastOp' = Resp("nextDay", Null, Null, Null, "", 0, "", "none")
  /\ UNCHANGED <<orders, dishes, tables, snap, requests>>

\* ---------------------------------------------------------- the system
Init ==
  /\ orders = <<>>
  /\ dishes = [d \in DishIds |-> InitialDish(d)]
  /\ tables = [t \in TableIds |-> InitialTable(t)]
  /\ today = 1
  /\ lastOp = Resp("init", Null, Null, Null, "", 0, "", "none")
  /\ snap = [order |-> Null, stock |-> [d \in DishIds |-> 0], phase |-> "none"]
  /\ requests = [p \in RequestIds |-> IdleRequest]

\* ------------------------------------------------- requests and bounds
RECURSIVE TotalHistory(_)
TotalHistory(n) == IF n = 0 THEN 0 ELSE Len(orders[n].statusHistory) + TotalHistory(n - 1)

HistoryRoom == TotalHistory(Len(orders)) < MaxHist

StockQuantities == {-1, 1, 2, 3}
\* review requests: a rating alone, and a rating with a text
ReviewBodies == { [rating |-> 1, review |-> Undefined], [rating |-> 5, review |-> "good"] }
FaultPoints == 0..4

\* a table id accompanies dine-in requests only
TableChoices(orderType) ==
  IF orderType = "dine_in" THEN TableIds \cup UnknownIds \cup {Null} ELSE {Null}

PlaceOrder ==
  /\ UNCHANGED requests
  /\ Len(orders) < MaxOrders
  /\ \E u \in Customers, r \in RestaurantIds, ty \in OrderTypes, items \in ItemLists :
       \E tb \in TableChoices(ty) : CreateOrder(u, r, ty, items, tb, 0)

ChangeStatus ==
  /\ UNCHANGED requests
  /\ HistoryRoom
  /\ \E id \in OrderIds \cup UnknownIds, u \in Staff, s \in OrderStatuses :
       SetOrderStatus(id, u, s, "", 0)

Cancel ==
  /\ UNCHANGED requests
  /\ HistoryRoom
  /\ \E id \in OrderIds \cup UnknownIds, u \in Users, reason \in Reasons :
       CancelOrder(id, u, reason, 0)

Review ==
  /\ UNCHANGED requests
  /\ \E id \in OrderIds \cup UnknownIds, u \in Users, body \in ReviewBodies :
       AddReview(id, u, body.rating, body.review)

\* the order engine: createOrder, setOrderStatus, cancelOrder, addReview
Next == PlaceOrder \/ ChangeStatus \/ Cancel \/ Review

Spec == Init /\ [][Next]_vars

\* the engine's stock effects next to the stock route
PlaceTakeout ==
  /\ UNCHANGED requests
  /\ Len(orders) < MaxOrders
  /\ \E u \in Customers, r \in RestaurantIds, items \in ItemLists :
       CreateOrder(u, r, "takeout", items, Null, 0)

CancelPlain ==
  /\ UNCHANGED requests
  /\ HistoryRoom
  /\ \E id \in OrderIds, u \in Staff : CancelOrder(id, u, Undefined, 0)

AdjustStock ==
  /\ UNCHANGED requests
  /\ \E d \in DishIds \cup UnknownIds, q \in StockQuantities, op \in StockOperations :
       UpdateDishStock(d, q, op)

NextStock == PlaceTakeout \/ CancelPlain \/ AdjustStock

SpecStock == Init /\ [][NextStock]_vars

\* the engine's table effects next to the table routes
SeatOrder ==
  /\ UNCHANGED requests
  /\ Len(orders) < MaxSeated
  /\ \E u \in Customers, r \in RestaurantIds, items \in BasicItemLists,
        tb \in TableChoices("dine_in") : CreateOrder(u, r, "dine_in", items, tb, 0)

TableStatus ==
  /\ UNCHANGED requests
  /\ \E t \in TableIds \cup UnknownIds, s \in TableStatuses : SetTableStatus(t, s)

TableUpdate ==
  /\ UNCHANGED requests
  /\ \E t \in TableIds \cup UnknownIds, s \in TableStatuses : UpdateTable(t, s)

CancelSeated ==
  /\ UNCHANGED requests
  /\ HistoryRoom
  /\ \E id \in OrderIds, u \in Staff, reason \in Reasons : CancelOrder(id, u, reason, 0)

NextTables == SeatOrder \/ CancelSeated \/ TableStatus \/ TableUpdate

SpecTables == Init /\ [][NextTables]_vars

\* order numbering over restaurants and days
NumberOrder ==
  /\ UNCHANGED requests
  /\ Len(orders) < MaxNumbered
  /\ \E u \in Customers, r \in RestaurantIds, items \in BasicItemLists :
       CreateOrder(u, r, "takeout", items, Null, 0)

NextNumbers == NumberOrder \/ AdjustStock \/ NextDay

SpecNumbers == Init /\ [][NextNumbers]_vars

\* cancellation next to the status route that can write a cancelled order
\* back to an open status
ReopenStatuses == {"pending", "confirmed", "cancelled", "delivered"}

ReopenRoom == TotalHistory(Len(orders)) < MaxReopen

Reopen ==
  /\ UNCHANGED requests
  /\ ReopenRoom
  /\ \E id \in OrderIds, u \in Staff, s \in ReopenStatuses : SetOrderStatus(id, u, s, "", 0)

CancelAgain ==
  /\ UNCHANGED requests
  /\ ReopenRoom
  /\ \E id \in OrderIds, u \in Users : CancelOrder(id, u, "changed mind", 0)

NextReopen == PlaceTakeout \/ Reopen \/ CancelAgain

SpecReopen == Init /\ [][NextReopen]_vars

\* the engine when a write to the database can fail
PlaceOrderFault ==
  /\ UNCHANGED requests
  /\ Len(orders) < MaxOrders
  /\ \E u \in Customers, r \in RestaurantIds, items \in ItemLists,
        tb \in TableChoices("dine_in"), fault \in FaultPoints :
       CreateOrder(u, r, "dine_in", items, tb, fault)

CancelFault ==
  /\ UNCHANGED requests
  /\ HistoryRoom
  /\ \E id \in OrderIds, u \in Staff, fault \in FaultPoints :
       CancelOrder(id, u, Undefined, fault)

ChangeStatusFault ==
  /\ UNCHANGED requests
  /\ HistoryRoom
  /\ \E id \in OrderIds, u \in Staff, s \in OrderStatuses, fault \in {0, 1} :
       SetOrderStatus(id, u, s, "", fault)

NextFault == PlaceOrderFault \/ CancelFault \/ ChangeStatusFault

SpecFault == Init /\ [][NextFault]_vars

\* the menu routes next to order creation.  Order requests: one line of an
\* existing dish in two quantities, a line of the dish the create route
\* adds, and two-line requests whose lines name a missing dish or another
\* restaurant's dish before or after a line of dish 1
MenuItemLists ==
  { <<Line(1, 1, <<>>)>>,
    <<Line(1, 2, <<>>)>>,
    <<Line(3, 1, <<>>)>>,
    <<Line(1, 1, <<>>), Line(9, 1, <<>>)>>,
    <<Line(9, 1, <<>>), Line(1, 1, <<>>)>>,
    <<Line(1, 1, <<>>), Line(2, 1, <<>>)>> }

\* bodies of POST /api/dishes: stock fields left to the schema defaults,
\* given, and rejected by the validators
NewDishBodies ==
  { [restaurantId |-> 1, price |-> 500000],
    [restaurantId |-> 1, price |-> 500000, stockQuantity |-> 1, lowStockThreshold |-> 0],
    [restaurantId |-> 1, price |-> 500000, stockQuantity |-> -1] }

\* bodies of PUT /api/dishes/:id: a stock level alone, a stock level or a
\* stock level and threshold next to contradicting flags, and a stock level
\* the validators reject
DishUpdates ==
  { [stockQuantity |-> 0],
    [stockQuantity |-> 0, isOutOfStock |-> FALSE],
    [stockQuantity |-> 2, lowStockThreshold |-> 2, isOutOfStock |-> TRUE,
     isLowStock |-> FALSE],
    [stockQuantity |-> -1] }

MenuDishIds == {1} \cup NewDishIds

\* the order requests: every item list as takeout, and two of them as
\* dine-in at table 1
MenuRequests ==
  [orderType : {"takeout"}, tableId : {Null}, items : MenuItemLists]
    \cup [orderType : {"dine_in"}, tableId : {1},
          items : { <<Line(1, 1, <<>>)>>, <<Line(1, 1, <<>>), Line(9, 1, <<>>)>> }]

PlaceMenuOrder ==
  /\ UNCHANGED requests
  /\ Len(orders) < MaxOrders
  /\ \E u \in Customers, req \in MenuRequests :
       CreateOrder(u, 1, req.orderType, req.items, req.tableId, 0)

AddDish ==
  /\ UNCHANGED requests
  /\ \E d \in NewDishIds, body \in NewDishBodies, categoryFound \in BOOLEAN :
       CreateDish(d, body, categoryFound)

EditDish ==
  /\ UNCHANGED requests
  /\ \E d \in MenuDishIds \cup UnknownIds, body \in DishUpdates : UpdateDish(d, body)

ToggleDish ==
  /\ UNCHANGED requests
  /\ \E d \in {1} \cup UnknownIds, isAvailable \in BOOLEAN :
       SetDishAvailability(d, isAvailable)

AdjustMenuStock ==
  /\ UNCHANGED requests
  /\ \E q \in StockQuantities, op \in StockOperations : UpdateDishStock(1, q, op)

NextMenu ==
  PlaceMenuOrder \/ CancelPlain \/ AddDish \/ EditDish \/ ToggleDish \/ AdjustMenuStock

SpecMenu == Init /\ [][NextMenu]_vars

\* order creation under concurrent requests
RaceQuantities == {1, 2}

Validate ==
  \E p \in RequestIds, u \in Customers, q \in RaceQuantities : CreateOrderValidate(p, u, q)

Insert == \E p \in RequestIds, u \in Customers : CreateOrderInsert(p, u)

ReadDish == \E p \in RequestIds : CreateOrderReadDish(p)

SaveDish == \E p \in RequestIds : CreateOrderSaveDish(p)

NextRace == Validate \/ Insert \/ ReadDish \/ SaveDish

SpecRace == Init /\ [][NextRace]_vars

\* ================================================================ claims
Succeeded == lastOp.code \in {200, 201}

\* the quantity an order asks of a dish, over all its lines
RECURSIVE QtyUpTo(_, _, _)
QtyUpTo(items, d, n) ==
  IF n = 0 THEN 0
  ELSE QtyUpTo(items, d, n - 1) + (IF items[n].dishId = d THEN items[n].quantity ELSE 0)

Qty(o, d) == QtyUpTo(orders[o].items, d, Len(orders[o].items))

\* C1: every persisted order's totalAmount equals subtotal + taxAmount +
\* serviceCharge + deliveryFee - discountAmount, after any sequence of
\* createOrder, setOrderStatus, cancelOrder and addReview.
C1_TotalsReconcile ==
  \A o \in OrderIds :
    orders[o].totalAmount =
      orders[o].subtotal + orders[o].taxAmount + orders[o].serviceCharge
        + orders[o].deliveryFee - orders[o].discountAmount

C1_Witness ==
  \E o \in OrderIds :
    /\ orders[o].deliveryFee > 0
    /\ orders[o].taxAmount > 0
    /\ orders[o].serviceCharge > 0
    /\ Len(orders[o].statusHistory) = MaxHist

\* C2: a successful createOrder leaves every dish with its stock before the
\* request minus the quantity the order asks of it, whatever the stock was.
C2_ExactDecrement ==
  (lastOp.op = "createOrder" /\ lastOp.code = 201) =>
    \A d \in DishIds : dishes[d].stockQuantity = snap.stock[d] - Qty(lastOp.id, d)

\* C3: after createOrder and then cancelOrder of that order, with no other
\* stock mutation in between, every dish the order refers to whose decrement
\* was not clamped at zero has its stock of before the order again.
C3_CancelRestoresStock ==
  snap.phase = "cancelled" =>
    \A d \in DishIds :
      (Qty(snap.order, d) > 0 /\ snap.stock[d] >= Qty(snap.order, d)) =>
        dishes[d].stockQuantity = snap.stock[d]

C3_Witness ==
  /\ snap.phase = "cancelled"
  /\ lastOp.op = "cancelOrder"
  /\ \E d \in DishIds : Qty(snap.order, d) = 3 /\ snap.stock[d] = 3

\* C4: occupy(orderId), as called by order creation, succeeds exactly on a
\* table that is available or reserved, which then is occupied with
\* currentOrder = orderId; on any other table it reports failure and leaves
\* status and currentOrder as they were.
C4_OccupyGuard ==
  [][\A t \in TableIds :
       (lastOp'.op = "createOrder" /\ lastOp'.occupied # "none" /\ lastOp'.table = t) =>
         IF tables[t].status \in {"available", "reserved"}
           THEN /\ lastOp'.occupied = "true"
                /\ tables'[t].status = "occupied"
                /\ tables'[t].currentOrder = lastOp'.id
           ELSE /\ lastOp'.occupied = "false"
                /\ tables'[t].status = tables[t].status
                /\ tables'[t].currentOrder = tables[t].currentOrder]_vars

C4_Witness ==
  /\ lastOp.op = "createOrder"
  /\ lastOp.occupied = "false"
  /\ lastOp.table \in TableIds
  /\ tables[lastOp.table].status = "occupied"
  /\ tables[lastOp.table].currentOrder \notin {Null, lastOp.id}

\* C5: createOrder for a dine_in order on a table that is occupied fails:
\* no order is persisted and the table keeps its occupant.
C5_OccupiedTableRefused ==
  [][(/\ lastOp'.op = "createOrder"
      /\ lastOp'.arg = "dine_in"
      /\ lastOp'.table \in TableIds
      /\ tables[lastOp'.table].status = "occupied") =>
       (/\ lastOp'.code \notin {200, 201}
        /\ orders' = orders
        /\ tables' = tables)]_vars

\* C6: cancelOrder on an order that is delivered, completed, cancelled or
\* rejected answers 400 and changes no order, no dish and no table.
C6_TerminalCancelRefused ==
  [][\A o \in OrderIds :
       (/\ lastOp'.op = "cancelOrder"
        /\ lastOp'.id = o
        /\ orders[o].status \in {"delivered", "completed", "cancelled", "rejected"}) =>
         (/\ lastOp'.code = 400
          /\ orders' = orders
          /\ dishes' = dishes
          /\ tables' = tables)]_vars

C6_Witness ==
  /\ lastOp.op = "cancelOrder"
  /\ lastOp.code = 400
  /\ lastOp.id \in OrderIds
  /\ orders[lastOp.id].status = "delivered"

\* C7: a status transition by setOrderStatus or cancelOrder appends exactly
\* one history entry, which carries the new status; every other step leaves
\* the history alone, so a history only ever grows at its end.
C7_HistoryAppendOnly ==
  [][\A o \in OrderIds :
       LET old == orders[o].statusHistory
           new == orders'[o].statusHistory
           transition == /\ lastOp'.op \in {"setOrderStatus", "cancelOrder"}
                         /\ lastOp'.id = o
                         /\ lastOp'.code = 200
       IN /\ Len(new) >= Len(old)
          /\ SubSeq(new, 1, Len(old)) = old
          /\ transition =>
               /\ Len(new) = Len(old) + 1
               /\ new[Len(new)].status = orders'[o].status
               /\ orders'[o].status =
                    (IF lastOp'.op = "cancelOrder" THEN "cancelled" ELSE lastOp'.arg)
          /\ ~transition => (new = old /\ orders'[o].status = orders[o].status)]_vars

C7_Witness ==
  \E o \in OrderIds :
    /\ Len(orders[o].statusHistory) = 2
    /\ orders[o].statusHistory[1].status = "ready"
    /\ orders[o].statusHistory[2].status = "cancelled"
    /\ lastOp.op = "cancelOrder"
    /\ lastOp.code = 200

\* C8: a table's currentOrder is set only while the table's status is
\* occupied.
C8_CurrentOrderOnlyWhenOccupied ==
  \A t \in TableIds : tables[t].currentOrder # Null => tables[t].status = "occupied"

\* the sequence number an order number ends in, and an order's position
\* among the orders of its restaurant and day
RECURSIVE DigitsValue(_)
DigitsValue(ds) ==
  IF ds = <<>> THEN 0 ELSE 10 * DigitsValue(SubSeq(ds, 1, Len(ds) - 1)) + ds[Len(ds)]

SequenceOf(o) == DigitsValue(SubSeq(orders[o].orderNumber, 7, Len(orders[o].orderNumber)))

SameRestaurantAndDay(a, b) ==
  orders[a].restaurantId = orders[b].restaurantId /\ orders[a].createdAt = orders[b].createdAt

Position(o) == Cardinality({p \in OrderIds : p <= o /\ SameRestaurantAndDay(p, o)})

\* C9: the k-th order of a restaurant on a day carries sequence number k,
\* and no two orders of one restaurant and day share an order number.
C9_SequentialNumbers ==
  /\ \A o \in OrderIds : SequenceOf(o) = Position(o)
  /\ \A a, b \in OrderIds :
       (a # b /\ SameRestaurantAndDay(a, b)) => orders[a].orderNumber # orders[b].orderNumber

C9_Witness ==
  \E a, b, c \in OrderIds :
    /\ a < b /\ SameRestaurantAndDay(a, b) /\ SequenceOf(b) = 2
    /\ orders[c].restaurantId # orders[a].restaurantId
    /\ SequenceOf(c) = 1

\* C10: createOrder and cancelOrder are all-or-nothing: a request that ends
\* in an error leaves no order, dish or table changed.
C10_AllOrNothing ==
  [][(lastOp'.op \in {"createOrder", "cancelOrder"} /\ lastOp'.code \notin {200, 201}) =>
       (orders' = orders /\ dishes' = dishes /\ tables' = tables)]_vars

\* a request line that names a dish of the restaurant which is available and
\* has stock
LinePasses(item, restaurantId) ==
  /\ item.dishId \in DOMAIN dishes
  /\ dishes[item.dishId].restaurantId = restaurantId
  /\ dishes[item.dishId].isAvailable
  /\ dishes[item.dishId].stockQuantity > 0

\* C11: in every state the dish routes and the order operations lead to, a
\* createOrder with a line of a dish of the restaurant whose stockQuantity is
\* 0 or whose isAvailable is false is refused with 400 and persists nothing,
\* whatever the quantity; when the lines before it pass, the error names
\* that dish as not available or out of stock.
C11_UnavailableDishRefused ==
  [][\A u \in Customers, req \in MenuRequests :
       (/\ lastOp'.op = "createOrder"
        /\ CreateOrder(u, 1, req.orderType, req.items, req.tableId, 0)) =>
         LET items == req.items IN
         \A i \in 1..Len(items) :
           LET d == items[i].dishId IN
           (/\ d \in DOMAIN dishes
            /\ dishes[d].restaurantId = 1
            /\ (dishes[d].stockQuantity = 0 \/ ~dishes[d].isAvailable)) =>
             /\ lastOp'.code = 400
             /\ orders' = orders
             /\ dishes' = dishes
             /\ (\A j \in 1..(i - 1) : LinePasses(items[j], 1)) =>
                  lastOp'.msg = (IF ~dishes[d].isAvailable THEN "Dish is not available"
                                                          ELSE "Dish is out of stock")]_vars

\* an order for the dish the create route stored with the default stock of
\* 0 is refused as out of stock
C11_Witness ==
  /\ lastOp.op = "createOrder"
  /\ lastOp.code = 400
  /\ lastOp.msg = "Dish is out of stock"
  /\ 3 \in DOMAIN dishes
  /\ dishes[3].stockQuantity = 0
  /\ dishes[1].stockQuantity > 0
  /\ dishes[1].isAvailable

\* the first line of a request that fails a check
FirstViolation(items, restaurantId) ==
  CHOOSE i \in 1..Len(items) :
    /\ ~LinePasses(items[i], restaurantId)
    /\ \A j \in 1..(i - 1) : LinePasses(items[j], restaurantId)

\* C12: a createOrder with a line that fails a check is refused with 400 and
\* changes no order, dish or table; the first failing line in item order
\* decides the error, which is the invalid-reference error when that line's
\* dishId names no dish or a dish of another restaurant.
C12_InvalidReferenceFailFast ==
  [][\A u \in Customers, req \in MenuRequests :
       (/\ lastOp'.op = "createOrder"
        /\ \E i \in 1..Len(req.items) : ~LinePasses(req.items[i], 1)
        /\ CreateOrder(u, 1, req.orderType, req.items, req.tableId, 0)) =>
         LET d == req.items[FirstViolation(req.items, 1)].dishId IN
         /\ lastOp'.code = 400
         /\ orders' = orders
         /\ dishes' = dishes
         /\ tables' = tables
         /\ lastOp'.msg =
              (IF d \notin DOMAIN dishes \/ dishes[d].restaurantId # 1
                 THEN "Dish not found or does not belong to this restaurant"
               ELSE IF ~dishes[d].isAvailable THEN "Dish is not available"
               ELSE "Dish is out of stock")]_vars

\* a dine-in request with an unresolvable line is refused while dish 1 could
\* be ordered and the table could be taken
C12_Witness ==
  /\ lastOp.op = "createOrder"
  /\ lastOp.code = 400
  /\ lastOp.msg = "Dish not found or does not belong to this restaurant"
  /\ lastOp.arg = "dine_in"
  /\ tables[1].status = "available"
  /\ dishes[1].isAvailable
  /\ dishes[1].stockQuantity > 0

\* C13: addReview stores the review only when the reviewer is the order's
\* customer and the order is completed; another reviewer is answered 403, the
\* customer of an order in any other status 400, and both leave the order,
\* with its rating, review and reviewDate, as it was.
C13_ReviewGuards ==
  [][\A id \in OrderIds, u \in Users, body \in ReviewBodies :
       (lastOp'.op = "addReview" /\ AddReview(id, u, body.rating, body.review)) =>
         IF orders[id].customerId # u
           THEN lastOp'.code = 403 /\ orders' = orders
         ELSE IF orders[id].status # "completed"
           THEN lastOp'.code = 400 /\ orders' = orders
         ELSE /\ lastOp'.code = 200
              /\ orders'[id].rating = body.rating
              /\ orders'[id].review = body.review
              /\ orders'[id].reviewDate = today]_vars

\* a completed order reviewed by its customer, then refused to another user
C13_Witness ==
  /\ lastOp.op = "addReview"
  /\ lastOp.code = 403
  /\ lastOp.id \in OrderIds
  /\ orders[lastOp.id].status = "completed"
  /\ orders[lastOp.id].rating = 5
  /\ orders[lastOp.id].review = "good"

\* C14: the amounts stored on an order are whole cents (1000 of the units
\* used here); a dine-in order of restaurant 1 with subtotal 27.48 stores
\* tax 2.34, service charge 2.75 and total 32.57.
C14_TwoDecimalAmounts ==
  \A o \in OrderIds :
    /\ orders[o].taxAmount % 1000 = 0
    /\ orders[o].serviceCharge % 1000 = 0
    /\ orders[o].totalAmount % 1000 = 0
    /\ (/\ orders[o].restaurantId = 1
        /\ orders[o].orderType = "dine_in"
        /\ orders[o].subtotal = 2748000) =>
         /\ orders[o].taxAmount = 234000
         /\ orders[o].serviceCharge = 275000
         /\ orders[o].totalAmount = 3257000

\* C15: a setOrderStatus that moves an order out of a live status to
\* cancelled or rejected puts the quantities of its lines back onto the
\* dishes and frees its dine-in table, as cancelOrder does.
C15_VoidingStatusReverses ==
  [][\A o \in OrderIds :
       (/\ lastOp'.op = "setOrderStatus"
        /\ lastOp'.id = o
        /\ lastOp'.code = 200
        /\ lastOp'.arg \in {"cancelled", "rejected"}
        /\ orders[o].status \notin CancelBlocked) =>
         /\ dishes' = RestoreStock(dishes, orders[o].items, Len(orders[o].items))
         /\ (orders[o].orderType = "dine_in" /\ orders[o].tableId \in TableIds) =>
              tables'[orders[o].tableId] = free(tables[orders[o].tableId])]_vars

\* C16: a table that is occupied with currentOrder = o refers to an existing
\* order o that is not delivered, completed, cancelled or rejected.
C16_NoOrphanedTable ==
  \A t \in TableIds :
    (tables[t].status = "occupied" /\ tables[t].currentOrder # Null) =>
      /\ tables[t].currentOrder \in OrderIds
      /\ orders[tables[t].currentOrder].status
           \notin {"delivered", "completed", "cancelled", "rejected"}

\* C17: right after a successful createOrder the order is pending and its
\* status history holds an entry for that initial status.
C17_HistorySeeded ==
  (lastOp.op = "createOrder" /\ lastOp.code = 201) =>
    /\ orders[lastOp.id].status = "pending"
    /\ Len(orders[lastOp.id].statusHistory) >= 1
    /\ orders[lastOp.id].statusHistory[1].status = "pending"

\* C18: a dine_in createOrder whose tableId names no table is refused: it
\* is not answered with success and no order is persisted.
C18_MissingTableRefused ==
  [][(/\ lastOp'.op = "createOrder"
      /\ lastOp'.arg = "dine_in"
      /\ lastOp'.table # Null
      /\ lastOp'.table \notin TableIds) =>
       (/\ lastOp'.code \notin {200, 201}
        /\ orders' = orders)]_vars

\* C19: a cancelOrder of an order that is not delivered, completed,
\* cancelled or rejected succeeds; it sets the status to cancelled, records
\* reason, actor and day, adds the quantity of each line to its dish's stock
\* and recomputes that dish's flags, and sets a dine-in order's table to
\* available with no currentOrder whatever the table's status was; no other
\* dish or table changes.
C19_CancelEffects ==
  [][\A id \in OrderIds, u \in Staff, reason \in Reasons :
       (/\ lastOp'.op = "cancelOrder"
        /\ orders[id].status \notin {"delivered", "completed", "cancelled", "rejected"}
        /\ CancelOrder(id, u, reason, 0)) =>
         /\ lastOp'.code = 200
         /\ orders'[id].status = "cancelled"
         /\ orders'[id].cancellationReason = reason
         /\ orders'[id].cancelledBy = u
         /\ orders'[id].cancelledAt = today
         /\ \A d \in DOMAIN dishes :
              IF Qty(id, d) = 0 THEN dishes'[d] = dishes[d]
              ELSE /\ dishes'[d].stockQuantity = dishes[d].stockQuantity + Qty(id, d)
                   /\ dishes'[d].isOutOfStock = (dishes'[d].stockQuantity = 0)
                   /\ dishes'[d].isLowStock =
                        (dishes'[d].stockQuantity <= dishes'[d].lowStockThreshold)
         /\ \A t \in TableIds :
              IF orders[id].orderType = "dine_in" /\ orders[id].tableId = t
                THEN tables'[t].status = "available" /\ tables'[t].currentOrder = Null
                ELSE tables'[t] = tables[t]]_vars

\* order 2 was seated at the table order 1 holds and took the last unit of
\* dish 1; cancelling order 2 with a reason leaves the table available
\* although order 1 is still pending, and dish 1 in stock again
C19_Witness ==
  /\ lastOp.op = "cancelOrder"
  /\ lastOp.code = 200
  /\ lastOp.id = 2
  /\ orders[2].cancellationReason = "changed mind"
  /\ orders[2].tableId = 1
  /\ orders[1].tableId = 1
  /\ orders[1].status = "pending"
  /\ tables[1].status = "available"
  /\ tables[1].currentOrder = Null
  /\ dishes[1].stockQuantity = 1
  /\ dishes[1].isLowStock
  /\ ~dishes[1].isOutOfStock

\* C20: an add or subtract stock adjustment by q leaves the dish with
\* max(0, stock + q) or max(0, stock - q), and no dish ever has negative
\* stock, whatever orders are created and cancelled and whatever stock
\* adjustments are made.
C20_StockNeverNegative ==
  /\ [](\A d \in DOMAIN dishes : dishes[d].stockQuantity >= 0)
  /\ [][\A d \in DishIds, q \in StockQuantities :
          /\ (lastOp'.op = "updateDishStock" /\ UpdateDishStock(d, q, "add")) =>
               dishes'[d].stockQuantity = Max(0, dishes[d].stockQuantity + q)
          /\ (lastOp'.op = "updateDishStock" /\ UpdateDishStock(d, q, "subtract")) =>
               dishes'[d].stockQuantity = Max(0, dishes[d].stockQuantity - q)]_vars

\* an accepted order asked for more of a dish than was in stock, and the
\* dish is left at zero
C20_Witness ==
  /\ lastOp.op = "createOrder"
  /\ lastOp.code = 201
  /\ \E d \in DishIds :
       /\ Qty(lastOp.id, d) > snap.stock[d]
       /\ dishes[d].stockQuantity = 0

\* C21: a dish's stockQuantity changes only by a clamped adjustment: the
\* stock route with quantity q leaves max(0, stock + q) or max(0, stock - q),
\* and the dish update route leaves the stock of an existing dish alone.
C21_SoleStockMutator ==
  [][\A d \in DOMAIN dishes :
       /\ lastOp'.op = "updateDish" => dishes'[d].stockQuantity = dishes[d].stockQuantity
       /\ \A q \in StockQuantities, op \in StockOperations :
            (lastOp'.op = "updateDishStock" /\ UpdateDishStock(d, q, op)) =>
              dishes'[d].stockQuantity \in
                { dishes[d].stockQuantity,
                  Max(0, dishes[d].stockQuantity + q),
                  Max(0, dishes[d].stockQuantity - q) }]_vars

\* C22: in every state the order, dish and stock routes leave behind, every
\* dish has isOutOfStock exactly when its stockQuantity is 0 and isLowStock
\* exactly when its stockQuantity is at most its lowStockThreshold.
C22_FlagsConsistent ==
  \A d \in DOMAIN dishes :
    /\ dishes[d].isOutOfStock = (dishes[d].stockQuantity = 0)
    /\ dishes[d].isLowStock = (dishes[d].stockQuantity <= dishes[d].lowStockThreshold)

\* dish 1 was updated with a body whose threshold makes its stock low, next
\* to a created dish that took the default stock of 0
C22_Witness ==
  /\ lastOp.op = "updateDish"
  /\ lastOp.code = 200
  /\ lastOp.id = 1
  /\ dishes[1].stockQuantity = 2
  /\ dishes[1].lowStockThreshold = 2
  /\ dishes[1].isLowStock
  /\ 3 \in DOMAIN dishes
  /\ dishes[3].stockQuantity = 0
  /\ dishes[3].isOutOfStock

\* C23: with requests interleaved, the stock write of createOrder is an
\* unlocked read-modify-write: a request that passed the out-of-stock check
\* is accepted, and its save stores max(0, r - quantity) for the stock r it
\* read in the stock loop, whatever another request has stored since; so
\* two accepted orders can leave more stock than the initial stock minus
\* both quantities.
C23_LostUpdate ==
  [][\A p \in RequestIds :
       (requests[p].pc = "read" /\ requests'[p].pc = "done") =>
         /\ lastOp'.op = "createOrder"
         /\ lastOp'.code = 201
         /\ dishes'[1].stockQuantity =
              Max(0, requests[p].dish.stockQuantity - requests[p].quantity)]_vars

\* two accepted orders of one unit each from a stock of 2 leave a stock of 1
C23_Witness ==
  /\ \A p \in RequestIds : requests[p].pc = "done" /\ requests[p].quantity = 1
  /\ Len(orders) = 2
  /\ lastOp.code = 201
  /\ dishes[1].stockQuantity = 1
  /\ dishes[1].stockQuantity > InitialDish(1).stockQuantity - Qty(1, 1) - Qty(2, 1)

RECURSIVE SumTotalPrice(_)
SumTotalPrice(items) ==
  IF items = <<>> THEN 0 ELSE Head(items).totalPrice + SumTotalPrice(Tail(items))

\* C24: createOrder prices an order as: each line's total is the dish price
\* times the quantity plus the customization prices once per line; the
\* subtotal is the sum of the line totals; tax and service charge are the
\* subtotal times the restaurant's rates over 100 (rates here in tenths of a
\* percent); the delivery fee is the restaurant's fee for a delivery order
\* and 0 otherwise; the discount is 0
C24_PricingFormula ==
  \A id \in OrderIds :
    LET o == orders[id]
        settings == restaurants[o.restaurantId]
    IN /\ \A i \in 1..Len(o.items) :
            /\ o.items[i].price = dishes[o.items[i].dishId].price
            /\ o.items[i].totalPrice =
                 o.items[i].price * o.items[i].quantity + SumSeq(o.items[i].customizations)
       /\ o.subtotal = SumTotalPrice(o.items)
       /\ o.taxAmount * 1000 = o.subtotal * settings.taxRate
       /\ o.serviceCharge * 1000 = o.subtotal * settings.serviceCharge
       /\ o.deliveryFee = (IF o.orderType = "delivery" THEN settings.deliveryFee ELSE 0)
       /\ o.discountAmount = 0

C24_Witness ==
  /\ lastOp.op = "createOrder"
  /\ lastOp.code = 201
  /\ Len(orders) = 1
  /\ orders[1].orderType = "delivery"
  /\ orders[1].items[1].quantity = 2
  /\ orders[1].items[1].customizations = <<150000>>
  /\ orders[1].subtotal = 2748000
  /\ orders[1].taxAmount = 233580
  /\ orders[1].serviceCharge = 274800
  /\ orders[1].deliveryFee = 300000


\* C25: setOrderStatus enforces no transition adjacency: for an existing
\* order each of the nine status values is accepted whatever the current
\* status is (a terminal one included, and out_for_delivery on an order that
\* is not a delivery): the request answers 200, the order takes the status
\* and the history grows by the entry
C25_NoTransitionAdjacency ==
  [][\A id \in OrderIds, u \in Staff, s \in OrderStatuses :
       (lastOp'.op = "setOrderStatus" /\ SetOrderStatus(id, u, s, "", 0)) =>
         /\ lastOp'.code = 200
         /\ orders'[id].status = s
         /\ Len(orders'[id].statusHistory) = Len(orders[id].statusHistory) + 1]_vars

\* a cancelled takeout order is written to out_for_delivery
C25_Witness ==
  /\ lastOp.op = "setOrderStatus"
  /\ lastOp.code = 200
  /\ Len(orders) = 1
  /\ orders[1].orderType = "takeout"
  /\ Len(orders[1].statusHistory) = 2
  /\ orders[1].statusHistory[1].status = "cancelled"
  /\ orders[1].status = "out_for_delivery"


\* C26: the stock of an order's lines is restored at most once per order: a
\* successful cancelOrder on an order that an earlier cancelOrder has
\* already cancelled (its cancellation reason is recorded), and whose status
\* was since written back to an open value, leaves every dish's stock as it
\* was
C26_RestoredAtMostOnce ==
  [][\A id \in OrderIds :
       ( /\ lastOp'.op = "cancelOrder"
         /\ lastOp'.code = 200
         /\ lastOp'.id = id
         /\ orders[id].cancellationReason # Undefined ) =>
         StockOf(dishes') = StockOf(dishes)]_vars


\* C27: creating and then cancelling an order never inflates inventory: with
\* no other stock mutation in between, after createOrder and cancelOrder of
\* that order no dish has more stock than before the order, also when the
\* order asked for more than the stock and the decrement was clamped at zero
C27_NoInflation ==
  snap.phase = "cancelled" =>
    \A d \in DishIds : dishes[d].stockQuantity <= snap.stock[d]


\* C28: cancelOrder only releases a table the cancelled order itself holds:
\* a table that is occupied by a different order which is not delivered,
\* completed, cancelled or rejected keeps its status and its currentOrder
\* when an order is cancelled
C28_ReleasesOwnTableOnly ==
  [][\A id \in OrderIds, t \in TableIds :
       ( /\ lastOp'.op = "cancelOrder"
         /\ lastOp'.id = id
         /\ tables[t].status = "occupied"
         /\ tables[t].currentOrder \in OrderIds \ {id}
         /\ orders[tables[t].currentOrder].status \notin CancelBlocked ) =>
         /\ tables'[t].status = tables[t].status
         /\ tables'[t].currentOrder = tables[t].currentOrder]_vars

\* C29: tenant isolation of tables: a createOrder or cancelOrder for an
\* order of one restaurant leaves the status and currentOrder of every table
\* of another restaurant as they were
C29_TableTenantIsolation ==
  [][\A t \in TableIds :
       /\ ( /\ lastOp'.op = "createOrder"
            /\ lastOp'.id \in DOMAIN orders'
            /\ orders'[lastOp'.id].restaurantId # tables[t].restaurantId ) =>
            (tables'[t].status = tables[t].status
               /\ tables'[t].currentOrder = tables[t].currentOrder)
       /\ ( /\ lastOp'.op = "cancelOrder"
            /\ lastOp'.id \in OrderIds
            /\ orders[lastOp'.id].restaurantId # tables[t].restaurantId ) =>
            (tables'[t].status = tables[t].status
               /\ tables'[t].currentOrder = tables[t].currentOrder)]_vars


\* C30: order-number generation never makes a valid createOrder fail: a
\* request whose lines all pass validation is answered 201 and stores an
\* order whose number no earlier order carries, of whichever restaurant and
\* day the earlier orders are
C30_NumberNeverCollides ==
  [][\A u \in Customers, r \in RestaurantIds, items \in BasicItemLists :
       ( /\ lastOp'.op = "createOrder"
         /\ ValidateItems(items, r, 1, 0, <<>>).ok
         /\ CreateOrder(u, r, "takeout", items, Null, 0) ) =>
         /\ lastOp'.code = 201
         /\ Len(orders') = Len(orders) + 1
         /\ ~OrderNumberTaken(orders'[Len(orders')].orderNumber)]_vars

====
